---- MODULE Spec2Model ----
(***************************************************************************)
(* Model of controller.py: the download controller that reads album.json,  *)
(* runs the Go downloader as a child process, scans "AM-DL downloads" for  *)
(* media files newer than the start of the task, validates them with       *)
(* ffmpeg (deleting the corrupted ones) and reports through the exit code. *)
(***************************************************************************)
EXTENDS Integers, Sequences, FiniteSets, TLC

\* ------------------------------------------------------------------ bounds
MaxTime == 3          \* the clock runs over 0..MaxTime
MaxRuns == 2          \* how many times main is run in a row
MaxPipe == 1          \* lines the child may have buffered in its stdout pipe

\* --------------------------------------------------------- program constants
SleepSecs == 2        \* time.sleep(2)
ExitSuccess == 0      \* sys.exit(0)
ExitFailure == 1      \* sys.exit(1)

\* The files that may live under SCAN_DIR, and the extension of each.
Files == {"x.flac", "y.m4a", "z.m4a", "n.txt"}

Ext(f) ==
    CASE f = "x.flac" -> "flac"
      [] f = "y.m4a"  -> "m4a"
      [] f = "z.m4a"  -> "m4a"
      [] OTHER        -> "txt"

\* What the file album.json may hold ("absent": there is no such file).
AlbumJsonStates ==
    {"absent", "malformed", "array", "obj_nourl", "obj_null", "obj_empty", "obj_url"}

\* Exit codes the downloader child may end with.
ChildExitCodes == {0, 2}

\* What one subprocess.run of ffmpeg can do, as the code sees it:
\* return normally, raise CalledProcessError, raise FileNotFoundError,
\* or raise any other exception.
FfmpegOutcomes == {"ok", "corrupt", "notfound", "error"}

None == "<None>"
NoExit == 0 - 1

VARIABLES
    albumJson,          \* content of ALBUM_JSON_FILE
    scanDir,            \* SCAN_DIR.exists()
    fs,                 \* file -> [exists, mtime] under SCAN_DIR
    now,                \* the wall clock
    pc,                 \* position of main
    exitCode,           \* code passed to sys.exit, NoExit while running
    task_start_time,    \* main: task_start_time
    child,              \* downloader child: "none", "running", "closed", "exited"
    pipe,               \* lines written by the child and not yet read
    return_code,        \* exit code of the child once it has exited
    new_files,          \* find_incremental_files: the returned list
    idx,                \* validate_files_with_ffmpeg: position of the for loop
    all_valid,          \* validate_files_with_ffmpeg: all_valid
    validation_success, \* main: validation_success
    validateReturned,   \* validate_files_with_ffmpeg has returned a value
    runs,               \* number of runs of main started so far
    \* ---- observations of the current run (history) ----
    fsAtStart,          \* fs when the run started
    downloaderInvoked,  \* Popen was attempted
    scanEntered,        \* find_incremental_files was called
    scanListing,        \* the list all_media_files built by the scan
    scanFailAt,         \* 0: no exception; k: exception at step k of the scan
    validateEntered,    \* validate_files_with_ffmpeg was called
    invoked,            \* sequence of files passed to ffmpeg
    verdict,            \* file -> outcome of its ffmpeg invocation, None if not run
    unlinkTried,        \* files on which media_file.unlink() was called
    unlinked            \* files media_file.unlink() removed

vars == <<albumJson, scanDir, fs, now, pc, exitCode, task_start_time, child, pipe,
          return_code, new_files, idx, all_valid, validation_success, runs,
          fsAtStart, downloaderInvoked, scanEntered, scanListing, scanFailAt,
          validateEntered, validateReturned, invoked, verdict, unlinkTried,
          unlinked>>

env == <<albumJson, scanDir, fs, now>>
proc == <<child, pipe, return_code>>
scanv == <<new_files, scanListing, scanFailAt, scanEntered>>
valv == <<idx, all_valid, validation_success, validateEntered, validateReturned,
          invoked, verdict, unlinkTried, unlinked>>

\* ----------------------------------------------------------------- helpers
Range(s) == {s[i] : i \in 1..Len(s)}

RECURSIVE PermSeqs(_)
PermSeqs(S) ==
    IF S = {} THEN {<<>>}
    ELSE UNION {{<<x>> \o p : p \in PermSeqs(S \ {x})} : x \in S}

Absent == [exists |-> FALSE, mtime |-> 0]

\* ------------------------------------------------ pure parts of controller.py

\* faulty variant: the existence test always succeeds
PathExistsAlways(content) == TRUE

\* ALBUM_JSON_FILE.exists()
PathExists(content) == content # "absent"

\* open + json.load: the parsed value; raised when the file cannot be opened
\* or parsed.
\* A dict is a function from its keys to their values.
JsonLoad(content) ==
    CASE content \in {"absent", "malformed"} ->
                                  [raised |-> TRUE,  isDict |-> FALSE, dict |-> <<>>]
      [] content = "array"     -> [raised |-> FALSE, isDict |-> FALSE, dict |-> <<>>]
      [] content = "obj_nourl" -> [raised |-> FALSE, isDict |-> TRUE,
                                   dict |-> [album_name |-> "Test"]]
      [] content = "obj_null"  -> [raised |-> FALSE, isDict |-> TRUE,
                                   dict |-> [album_url |-> None]]
      [] content = "obj_empty" -> [raised |-> FALSE, isDict |-> TRUE,
                                   dict |-> [album_url |-> "", album_name |-> "Test"]]
      [] OTHER                 -> [raised |-> FALSE, isDict |-> TRUE,
                                   dict |-> [album_url |-> "https://example/a",
                                             album_name |-> "Test"]]

\* task_data.get(key)
DictGet(d, key) == IF key \in DOMAIN d THEN d[key] ELSE None

\* faulty variant: "album_url is None" instead of "not album_url"
UrlMissingOnlyNone(album_url) == album_url = None

\* "not album_url": None and the empty string are falsy
UrlMissing(album_url) == album_url \in {None, ""}

\* faulty variant: the exit code of the child is ignored
DownloaderResultIgnoresCode(rc) == TRUE

\* run_downloader_in_wsl: the boolean made of the child's exit code
DownloaderResult(rc) == rc = 0

\* faulty variant: the loop stops with lines still unread
AtEofUndrained(c, p) == c \in {"closed", "exited"}

\* process.stdout.readline() returns "" (end of stream)
AtEof(c, p) == c \in {"closed", "exited"} /\ p = 0

\* process.wait() returns
WaitReturns(c) == c = "exited"

\* faulty variant: >= instead of >
IsNewerOrEqual(mtime, start) == mtime >= start

\* f.stat().st_mtime > start_time
IsNewer(mtime, start) == mtime > start

\* SCAN_DIR.rglob("*.m4a") / rglob("*.flac"): the files of one extension
Rglob(fsys, ext) == {f \in Files : fsys[f].exists /\ Ext(f) = ext}

\* list(rglob("*.m4a")) + list(rglob("*.flac")): every order the directory
\* walk may produce
Listings(fsys) ==
    {a \o b : a \in PermSeqs(Rglob(fsys, "m4a")), b \in PermSeqs(Rglob(fsys, "flac"))}

\* the for loop of find_incremental_files over the first n items of the list
RECURSIVE Collect(_, _, _, _)
Collect(listing, n, fsys, start) ==
    IF n = 0 THEN <<>>
    ELSE LET f == listing[n]
             rest == Collect(listing, n - 1, fsys, start)
         IN IF fsys[f].exists /\ IsNewer(fsys[f].mtime, start)
            THEN Append(rest, f) ELSE rest

\* faulty variant: the except clause resets new_files
ScanResultEmptyOnError(listing, failAt, fsys, start) ==
    IF failAt = 0 THEN Collect(listing, Len(listing), fsys, start) ELSE <<>>

\* find_incremental_files once the list is built.  failAt = 0: no exception;
\* failAt = 1: rglob raised; failAt = k + 1: is_file/stat raised on item k.
\* The except clause only prints: new_files is returned as it stands.
ScanResult(listing, failAt, fsys, start) ==
    IF failAt = 0 THEN Collect(listing, Len(listing), fsys, start)
    ELSE IF failAt = 1 THEN <<>>
    ELSE Collect(listing, failAt - 2, fsys, start)

\* faulty variant: all_valid is overwritten by each file
AllValidLastWins(av, outcome) == outcome # "corrupt"

\* all_valid after one file: CalledProcessError sets it to False
AllValidAfter(av, outcome) == av /\ outcome # "corrupt"

\* faulty variant: unlink reports success and removes nothing
UnlinkLeavesFile(fsys, f) == fsys

\* media_file.unlink()
Unlink(fsys, f) == [fsys EXCEPT ![f] = Absent]

\* faulty variant: the validation result is ignored
ExitCodeAlwaysSuccess(ok) == ExitSuccess

\* main, step 3: the exit code for a validation result
ExitCodeFor(ok) == IF ok THEN ExitSuccess ELSE ExitFailure

\* ------------------------------------------------------------------- state
InitialFiles == {Absent, [exists |-> TRUE, mtime |-> 0]}

RunLocalInit ==
    /\ pc = "start"
    /\ exitCode = NoExit
    /\ task_start_time = 0
    /\ child = "none"
    /\ pipe = 0
    /\ return_code = NoExit
    /\ new_files = <<>>
    /\ idx = 0
    /\ all_valid = TRUE
    /\ validation_success = FALSE
    /\ validateReturned = FALSE
    /\ downloaderInvoked = FALSE
    /\ scanEntered = FALSE
    /\ scanListing = <<>>
    /\ scanFailAt = 0
    /\ validateEntered = FALSE
    /\ invoked = <<>>
    /\ verdict = [f \in Files |-> None]
    /\ unlinkTried = {}
    /\ unlinked = {}

Init ==
    /\ albumJson \in AlbumJsonStates
    /\ scanDir \in BOOLEAN
    /\ fs \in [Files -> InitialFiles]
    /\ (~scanDir => \A f \in Files : ~fs[f].exists)
    /\ now = 0
    /\ runs = 1
    /\ fsAtStart = fs
    /\ RunLocalInit

\* sys.exit(code)
Exit(code) == pc' = "exited" /\ exitCode' = code

\* ------------------------------------------------------------------- main
\* main: the test of ALBUM_JSON_FILE.exists()
MainStart ==
    /\ pc = "start"
    /\ IF ~PathExists(albumJson) THEN Exit(ExitSuccess)
       ELSE pc' = "load" /\ UNCHANGED exitCode
    /\ UNCHANGED <<env, proc, scanv, valv, task_start_time, runs, fsAtStart,
                   downloaderInvoked>>

\* main: json.load, the album_url test and time.time()
MainLoadTask ==
    /\ pc = "load"
    /\ LET r == JsonLoad(albumJson) IN
       IF r.raised \/ ~r.isDict
       THEN Exit(ExitFailure) /\ UNCHANGED task_start_time
       ELSE IF UrlMissing(DictGet(r.dict, "album_url"))
       THEN Exit(ExitFailure) /\ UNCHANGED task_start_time
       ELSE pc' = "popen" /\ task_start_time' = now /\ UNCHANGED exitCode
    /\ UNCHANGED <<env, proc, scanv, valv, runs, fsAtStart, downloaderInvoked>>

\* ------------------------------------------------- run_downloader_in_wsl
\* subprocess.Popen: the child starts, or Popen raises and the function
\* returns False, on which main exits 1
Popen(started) ==
    /\ pc = "popen"
    /\ downloaderInvoked' = TRUE
    /\ IF started
       THEN child' = "running" /\ pc' = "readloop" /\ UNCHANGED exitCode
       ELSE Exit(ExitFailure) /\ UNCHANGED child
    /\ UNCHANGED <<env, pipe, return_code, scanv, valv, task_start_time, runs,
                   fsAtStart>>

\* the for loop over process.stdout.readline: one line read
ReadLine ==
    /\ pc = "readloop"
    /\ pipe > 0
    /\ pipe' = pipe - 1
    /\ UNCHANGED <<env, pc, exitCode, child, return_code, scanv, valv,
                   task_start_time, runs, fsAtStart, downloaderInvoked>>

\* the for loop ends at end of stream
ReadEof ==
    /\ pc = "readloop"
    /\ AtEof(child, pipe)
    /\ pc' = "wait"
    /\ UNCHANGED <<env, exitCode, proc, scanv, valv, task_start_time, runs,
                   fsAtStart, downloaderInvoked>>

\* process.wait(), the test of return_code, and main's test of go_success
Wait ==
    /\ pc = "wait"
    /\ WaitReturns(child)
    /\ IF DownloaderResult(return_code)
       THEN pc' = "sleep" /\ UNCHANGED exitCode
       ELSE Exit(ExitFailure)
    /\ UNCHANGED <<env, proc, scanv, valv, task_start_time, runs, fsAtStart,
                   downloaderInvoked>>

\* ------------------------------------------ the downloader child process
ChildAlive == child \in {"running", "closed"}

\* the downloader creates or rewrites a file under SCAN_DIR
ChildWrite(f) ==
    /\ ChildAlive
    /\ fs' = [fs EXCEPT ![f] = [exists |-> TRUE, mtime |-> now]]
    /\ scanDir' = TRUE
    /\ UNCHANGED <<albumJson, now, pc, exitCode, proc, scanv, valv,
                   task_start_time, runs, fsAtStart, downloaderInvoked>>

\* the downloader prints a line
ChildEmit ==
    /\ child = "running"
    /\ pipe < MaxPipe
    /\ pipe' = pipe + 1
    /\ UNCHANGED <<env, pc, exitCode, child, return_code, scanv, valv,
                   task_start_time, runs, fsAtStart, downloaderInvoked>>

\* the downloader closes its output before it ends
ChildClose ==
    /\ child = "running"
    /\ child' = "closed"
    /\ UNCHANGED <<env, pc, exitCode, pipe, return_code, scanv, valv,
                   task_start_time, runs, fsAtStart, downloaderInvoked>>

\* the downloader terminates
ChildExit(rc) ==
    /\ ChildAlive
    /\ child' = "exited"
    /\ return_code' = rc
    /\ UNCHANGED <<env, pc, exitCode, pipe, scanv, valv, task_start_time, runs,
                   fsAtStart, downloaderInvoked>>

\* time passes while the downloader runs
Tick ==
    /\ ChildAlive
    /\ now + SleepSecs < MaxTime
    /\ now' = now + 1
    /\ UNCHANGED <<albumJson, scanDir, fs, pc, exitCode, proc, scanv, valv,
                   task_start_time, runs, fsAtStart, downloaderInvoked>>

\* ---------------------------------------------------------------- main, cont.
\* time.sleep(2)
Sleep ==
    /\ pc = "sleep"
    /\ now' = now + SleepSecs
    /\ pc' = "scan"
    /\ UNCHANGED <<albumJson, scanDir, fs, exitCode, proc, scanv, valv,
                   task_start_time, runs, fsAtStart, downloaderInvoked>>

\* ------------------------------------------------- find_incremental_files
\* SCAN_DIR does not exist: return []
ScanNoDir ==
    /\ pc = "scan"
    /\ ~scanDir
    /\ scanEntered' = TRUE
    /\ new_files' = <<>>
    /\ scanListing' = <<>>
    /\ scanFailAt' = 0
    /\ pc' = "validate"
    /\ UNCHANGED <<env, exitCode, proc, valv, task_start_time, runs, fsAtStart,
                   downloaderInvoked>>

\* the traversal: the list is built in some order, and an exception may be
\* raised while it is built or on any item of the loop
ScanDir(listing, failAt) ==
    /\ pc = "scan"
    /\ scanDir
    /\ scanEntered' = TRUE
    /\ scanListing' = listing
    /\ scanFailAt' = failAt
    /\ new_files' = ScanResult(listing, failAt, fs, task_start_time)
    /\ pc' = "validate"
    /\ UNCHANGED <<env, exitCode, proc, valv, task_start_time, runs, fsAtStart,
                   downloaderInvoked>>

\* --------------------------------------------- validate_files_with_ffmpeg
\* entry: the empty list returns True at once
ValidateEnter ==
    /\ pc = "validate"
    /\ validateEntered' = TRUE
    /\ IF new_files = <<>>
       THEN /\ validation_success' = TRUE
            /\ validateReturned' = TRUE
            /\ pc' = "report"
            /\ UNCHANGED <<idx, all_valid>>
       ELSE /\ idx' = 1
            /\ all_valid' = TRUE
            /\ pc' = "loop"
            /\ UNCHANGED <<validation_success, validateReturned>>
    /\ UNCHANGED <<env, exitCode, proc, scanv, invoked, verdict, unlinkTried,
                   unlinked, task_start_time, runs, fsAtStart, downloaderInvoked>>

\* one iteration of the for loop: ffmpeg is run on new_files[idx]
ValidateFile(outcome, unlinkOk) ==
    /\ pc = "loop"
    /\ idx <= Len(new_files)
    /\ LET media_file == new_files[idx] IN
       /\ invoked' = Append(invoked, media_file)
       /\ verdict' = [verdict EXCEPT ![media_file] = outcome]
       /\ all_valid' = AllValidAfter(all_valid, outcome)
       /\ CASE outcome = "ok" ->
                 /\ idx' = idx + 1
                 /\ UNCHANGED <<pc, exitCode, fs, unlinkTried, unlinked,
                                validation_success, validateReturned>>
            [] outcome = "notfound" ->
                 /\ validation_success' = FALSE
                 /\ validateReturned' = TRUE
                 /\ pc' = "report"
                 /\ UNCHANGED <<idx, exitCode, fs, unlinkTried, unlinked>>
            [] outcome = "corrupt" ->
                 /\ unlinkTried' = unlinkTried \cup {media_file}
                 /\ IF unlinkOk
                    THEN /\ fs' = Unlink(fs, media_file)
                         /\ unlinked' = unlinked \cup {media_file}
                    ELSE UNCHANGED <<fs, unlinked>>
                 /\ idx' = idx + 1
                 /\ UNCHANGED <<pc, exitCode, validation_success, validateReturned>>
            [] OTHER ->
                 \* any other exception reaches main's except clause
                 /\ Exit(ExitFailure)
                 /\ UNCHANGED <<idx, fs, unlinkTried, unlinked,
                                validation_success, validateReturned>>
    /\ UNCHANGED <<albumJson, scanDir, now, proc, scanv, validateEntered,
                   task_start_time, runs, fsAtStart, downloaderInvoked>>

\* the loop is over: return all_valid
ValidateReturn ==
    /\ pc = "loop"
    /\ idx > Len(new_files)
    /\ validation_success' = all_valid
    /\ validateReturned' = TRUE
    /\ pc' = "report"
    /\ UNCHANGED <<env, exitCode, proc, scanv, idx, all_valid, validateEntered,
                   invoked, verdict, unlinkTried, unlinked, task_start_time, runs,
                   fsAtStart, downloaderInvoked>>

\* main, step 3
Report ==
    /\ pc = "report"
    /\ Exit(ExitCodeFor(validation_success))
    /\ UNCHANGED <<env, proc, scanv, valv, task_start_time, runs, fsAtStart,
                   downloaderInvoked>>

\* the caller runs the controller again, on the filesystem as it is
Rerun ==
    /\ pc = "exited"
    /\ runs < MaxRuns
    /\ now + SleepSecs <= MaxTime
    /\ runs' = runs + 1
    /\ fsAtStart' = fs
    /\ pc' = "start"
    /\ exitCode' = NoExit
    /\ task_start_time' = 0
    /\ child' = "none"
    /\ pipe' = 0
    /\ return_code' = NoExit
    /\ new_files' = <<>>
    /\ idx' = 0
    /\ all_valid' = TRUE
    /\ validation_success' = FALSE
    /\ validateReturned' = FALSE
    /\ downloaderInvoked' = FALSE
    /\ scanEntered' = FALSE
    /\ scanListing' = <<>>
    /\ scanFailAt' = 0
    /\ validateEntered' = FALSE
    /\ invoked' = <<>>
    /\ verdict' = [f \in Files |-> None]
    /\ unlinkTried' = {}
    /\ unlinked' = {}
    /\ UNCHANGED env

Next ==
    \/ MainStart
    \/ MainLoadTask
    \/ \E started \in BOOLEAN : Popen(started)
    \/ ReadLine
    \/ ReadEof
    \/ Wait
    \/ \E f \in Files : ChildWrite(f)
    \/ ChildEmit
    \/ ChildClose
    \/ \E rc \in ChildExitCodes : ChildExit(rc)
    \/ Tick
    \/ Sleep
    \/ ScanNoDir
    \/ \E listing \in Listings(fs) :
          \E failAt \in 0..(Len(listing) + 1) : ScanDir(listing, failAt)
    \/ ValidateEnter
    \/ \E outcome \in FfmpegOutcomes, unlinkOk \in BOOLEAN :
          ValidateFile(outcome, unlinkOk)
    \/ ValidateReturn
    \/ Report
    \/ Rerun

Spec == Init /\ [][Next]_vars

TypeOK ==
    /\ albumJson \in AlbumJsonStates
    /\ scanDir \in BOOLEAN
    /\ now \in 0..MaxTime
    /\ \A f \in Files : fs[f].exists \in BOOLEAN /\ fs[f].mtime \in 0..now
    /\ (~scanDir => \A f \in Files : ~fs[f].exists)
    /\ pc \in {"start", "load", "popen", "readloop", "wait", "sleep", "scan",
               "validate", "loop", "report", "exited"}
    /\ exitCode \in {NoExit, ExitSuccess, ExitFailure}
    /\ (pc = "exited") = (exitCode # NoExit)
    /\ child \in {"none", "running", "closed", "exited"}
    /\ pipe \in 0..MaxPipe
    /\ runs \in 1..MaxRuns

\* ------------------------------------------------------------------ claims
Done == pc = "exited"
Candidates == Range(new_files)
Rejected == {f \in Files : verdict[f] = "corrupt"}
AllowListed(f) == Ext(f) \in {"m4a", "flac"}
LaunchFailed == \E f \in Files : verdict[f] \in {"notfound", "error"}
DownloaderFailed == child = "exited" /\ return_code # 0

\* C1, as stated: when a run in which the validator rejected at least one
\* candidate has ended, every rejected file is gone from the filesystem, every
\* candidate was passed to the validator, and the exit code is 1.
C1_AsStated ==
    (Done /\ Rejected # {}) =>
        /\ \A f \in Rejected : ~fs[f].exists
        /\ Range(invoked) = Candidates
        /\ exitCode = ExitFailure

\* C1, amended: when a run in which the validator rejected at least one
\* candidate has ended, the exit code is 1; the deletion of every rejected file
\* was attempted and the file is gone unless that deletion failed; and every
\* candidate was passed to the validator unless a launch of the validator
\* failed (tool not found, or another exception) before the end of the list.
C1_Amended ==
    (Done /\ Rejected # {}) =>
        /\ exitCode = ExitFailure
        /\ \A f \in Rejected :
              /\ f \in unlinkTried
              /\ (f \in unlinked) = ~fs[f].exists
        /\ (~LaunchFailed => Range(invoked) = Candidates)

C1_Witness ==
    /\ Done /\ exitCode = ExitFailure
    /\ Len(new_files) >= 2
    /\ verdict[new_files[1]] = "corrupt" /\ ~fs[new_files[1]].exists
    /\ verdict[new_files[2]] = "ok" /\ fs[new_files[2]].exists

\* C2: once the downloader child has terminated with a nonzero exit code, the
\* scan and the validation are never entered, no validator is run, no file is
\* deleted, and the run ends with exit code 1.
C2_DownloaderFailure ==
    DownloaderFailed =>
        /\ ~scanEntered /\ ~validateEntered
        /\ invoked = <<>> /\ unlinkTried = {}
        /\ \A f \in Files : fsAtStart[f].exists => fs[f].exists
        /\ pc \in {"readloop", "wait", "exited"}
        /\ (Done => exitCode = ExitFailure)

C2_Witness ==
    /\ Done /\ DownloaderFailed /\ exitCode = ExitFailure
    /\ \E f \in Files : AllowListed(f) /\ fs[f].exists /\ fs[f].mtime > task_start_time

\* C3: while album.json does not exist, every run (the first and each rerun)
\* ends with exit code 0, never starts the downloader or a validator, and
\* leaves the filesystem as it found it.
C3_NoDescriptor ==
    albumJson = "absent" =>
        /\ ~downloaderInvoked /\ child = "none"
        /\ ~scanEntered /\ ~validateEntered /\ invoked = <<>>
        /\ fs = fsAtStart
        /\ (Done => exitCode = ExitSuccess)

C3_Witness ==
    /\ albumJson = "absent" /\ Done /\ exitCode = ExitSuccess /\ runs = 2
    /\ \E f \in Files : fs[f].exists

\* C4: when album.json parses to an object whose album_url is absent, null or
\* empty, the downloader is never started and the run ends with exit code 1.
C4_MissingUrl ==
    albumJson \in {"obj_nourl", "obj_null", "obj_empty"} =>
        /\ ~downloaderInvoked /\ child = "none"
        /\ (Done => exitCode = ExitFailure)

C4_Witness ==
    albumJson = "obj_empty" /\ Done /\ exitCode = ExitFailure /\ ~downloaderInvoked

\* the scan directory is absent, or no allow-listed file in it has a
\* modification time strictly greater than the start timestamp
NoNewMedia ==
    ~scanDir \/ \A f \in Files :
                   ~(AllowListed(f) /\ fs[f].exists /\ fs[f].mtime > task_start_time)

\* C5: after a successful download, a scan that meets no new media file
\* returns the empty list; with an empty list no validator is run, validation
\* returns True and the run ends with exit code 0.
C5_EmptyCandidates ==
    /\ (pc = "validate" /\ NoNewMedia) => new_files = <<>>
    /\ (scanEntered /\ new_files = <<>>) =>
          /\ invoked = <<>>
          /\ (validateReturned => validation_success)
          /\ pc \in {"validate", "report", "exited"}
          /\ (Done => exitCode = ExitSuccess /\ validateReturned)

C5_Witness ==
    /\ Done /\ scanEntered /\ new_files = <<>> /\ exitCode = ExitSuccess
    /\ scanFailAt = 0
    /\ \E f \in Files : AllowListed(f) /\ fs[f].exists

\* C6: when a launch of the validator fails with "not found", that launch is
\* the last one of the run, the file it was for is neither deleted nor tried
\* for deletion, validation returns False and the run ends with exit code 1.
C6_ValidatorNotFound ==
    \A i \in 1..Len(invoked) :
        verdict[invoked[i]] = "notfound" =>
            /\ i = Len(invoked)
            /\ invoked[i] \notin unlinkTried /\ fs[invoked[i]].exists
            /\ validateReturned /\ ~validation_success
            /\ pc \in {"report", "exited"}
            /\ (Done => exitCode = ExitFailure)

C6_Witness ==
    /\ Done /\ exitCode = ExitFailure
    /\ Len(new_files) >= 2 /\ Len(invoked) = 1
    /\ verdict[invoked[1]] = "notfound"
    /\ unlinkTried = {}

\* C7: whenever validate_files_with_ffmpeg returns, it returns True exactly
\* when every file of its list was run through the validator and passed;
\* neither the order of the list nor the fate of a deletion enters into it.
C7_AggregateResult ==
    validateReturned =>
        validation_success = (\A f \in Candidates : verdict[f] = "ok")

C7_Witness ==
    /\ validateReturned /\ ~validation_success
    /\ Len(new_files) >= 2 /\ Len(invoked) = Len(new_files)
    /\ verdict[new_files[1]] = "corrupt"
    /\ new_files[1] \in unlinkTried \ unlinked
    /\ verdict[new_files[Len(new_files)]] = "ok"

ScanRaised == scanEntered /\ scanFailAt # 0
ScannedBeforeRaise == {scanListing[i] : i \in 1..(scanFailAt - 2)}

C9_AfterDownloader ==
    (\/ pc \in {"sleep", "scan", "validate", "loop", "report"}
     \/ scanEntered \/ validateEntered
     \/ invoked # <<>> \/ unlinkTried # {}) =>
        child = "exited" /\ pipe = 0 /\ return_code = 0

C9_Witness ==
    /\ pc = "loop" /\ invoked # <<>> /\ unlinked # {}
    /\ child = "exited" /\ return_code = 0

\* the controller removes f in this step after the validator rejected it
RemovesRejected(f) ==
    /\ pc = "loop" /\ idx <= Len(new_files) /\ f = new_files[idx]
    /\ verdict'[f] = "corrupt"
    /\ AllowListed(f) /\ fs[f].mtime > task_start_time
    /\ ~fs'[f].exists

\* C10: in every step album.json stays as it is, and a file under the scan
\* directory changes only when the running downloader writes it or when the
\* controller removes it as a candidate (allow-listed, strictly newer than
\* the start timestamp) that the validator has just rejected.
C10_OnlyRejectedRemoved ==
    [][ /\ albumJson' = albumJson
        /\ \A f \in Files :
              fs'[f] # fs[f] => \/ (ChildAlive /\ fs'[f].exists)
                                \/ RemovesRejected(f) ]_vars

C10_Witness ==
    /\ Done /\ unlinked # {}
    /\ \E f \in Files : AllowListed(f) /\ fs[f].exists /\ verdict[f] = "ok"
    /\ \E f \in Files : AllowListed(f) /\ fs[f].exists /\ fs[f].mtime <= task_start_time
    /\ fs["n.txt"].exists

====
